---- MODULE Spec2Model ----
(***************************************************************************)
(* File integrity monitoring: the alert manager of fim_alert.py (config   *)
(* loading, per-path alert throttling, e-mail dispatch), its event entry   *)
(* point handle_watchdog_event, the watchdog logging handler of            *)
(* WatchDog.py, and the baseline creation of project.py.                   *)
(***************************************************************************)
EXTENDS Integers, Sequences, FiniteSets, TLC

(***************************************************************************)
(* Bounds of the model.                                                    *)
(***************************************************************************)
\* the clock runs from 0 to MaxTime seconds
MaxTime == 4
\* at most MaxCalls send_alert calls (or handled events) are recorded
MaxCalls == 4
\* _send_email takes 0..MaxSendDelay seconds
MaxSendDelay == 1
\* the clock of the baseline script runs from 0 to MaxWall half seconds
MaxWall == 3
\* at most MaxBaselines create_baseline calls are recorded
MaxBaselines == 2

\* file paths alerts are raised for
Paths == {"a", "b"}
\* event-type strings passed to send_alert
EventTypes == {"modified", "created", "deleted", "moved", "Deleted", "file_deleted"}
\* (old_hash, new_hash) arguments of handle_watchdog_event (None is "")
HashPairs == {<<"", "">>, <<"h1", "h1">>, <<"h1", "h2">>}

VARIABLES
    now,             \* datetime.now().timestamp(), whole seconds
    cfgFile,         \* alert_config.ini on disk
    mgrState,        \* "none" | "ok" | "failed": the long-lived FIMAlertManager
    config,          \* self.config
    throttle_period, \* self.throttle_period
    alert_history,   \* self.alert_history: path -> (last_alert_time, alert_count)
    calls,           \* history: per path, the send_alert calls made on the manager
    last,            \* history: the last send_alert call and what it did
    hwCalls,         \* history: per path, the events given to handle_watchdog_event
    handler,         \* CustomLoggingEventHandler: log_file (absolute)
    fimLog,          \* number of records the watchdog handler has logged
    lastEvent,       \* history: the last watchdog event and the records it added
    wall,            \* time.time() of the baseline script, in half seconds
    tree,            \* the monitored directory: file -> content, unreadable or absent
    baselines,       \* the baselines directory: snapshot file name -> its content
    blCalls,         \* history: the create_baseline calls and what each wrote
    lastBaseline     \* history: what the last create_baseline call met in the tree

vars == <<now, cfgFile, mgrState, config, throttle_period, alert_history,
          calls, last, hwCalls, handler, fimLog, lastEvent,
          wall, tree, baselines, blCalls, lastBaseline>>

alertVars == <<now, cfgFile, mgrState, config, throttle_period, alert_history,
               calls, last, hwCalls>>
watchVars == <<handler, fimLog, lastEvent>>
baseVars == <<wall, tree, baselines, blCalls, lastBaseline>>

(***************************************************************************)
(* configparser: a configuration is a mapping section -> (key -> string).  *)
(***************************************************************************)
\* int(s) of the strings the configurations use; any other string raises
IntLiteral ==
    [s \in {"300", "3", "2", "1", "587"} |->
        CASE s = "300" -> 300
          [] s = "3" -> 3
          [] s = "2" -> 2
          [] s = "1" -> 1
          [] s = "587" -> 587]

\* json.loads succeeds on these strings
JsonLiteral == {"[\"admin@example.com\", \"security@example.com\"]", "[]"}

\* str.lower() on the event types used
Lower(s) ==
    CASE s = "Deleted" -> "deleted"
      [] OTHER -> s

HasOption(cfg, section, key) ==
    /\ section \in DOMAIN cfg
    /\ key \in DOMAIN cfg[section]

\* config.get(section, key): raises NoSectionError / NoOptionError
Get(cfg, section, key) ==
    IF HasOption(cfg, section, key)
    THEN [raised |-> FALSE, val |-> cfg[section][key]]
    ELSE [raised |-> TRUE, val |-> ""]

\* config.get(section, key, fallback=fb)
GetFallback(cfg, section, key, fb) ==
    IF HasOption(cfg, section, key) THEN cfg[section][key] ELSE fb

\* config.getint(section, key): raises also ValueError
GetInt(cfg, section, key) ==
    IF ~HasOption(cfg, section, key) THEN [raised |-> TRUE, val |-> 0]
    ELSE IF cfg[section][key] \notin DOMAIN IntLiteral THEN [raised |-> TRUE, val |-> 0]
    ELSE [raised |-> FALSE, val |-> IntLiteral[cfg[section][key]]]

\* config.getint(section, key, fallback=fb): the fallback covers a missing
\* section or key, not a value that is no integer
GetIntFallback(cfg, section, key, fb) ==
    IF ~HasOption(cfg, section, key) THEN [raised |-> FALSE, val |-> fb]
    ELSE IF cfg[section][key] \notin DOMAIN IntLiteral THEN [raised |-> TRUE, val |-> 0]
    ELSE [raised |-> FALSE, val |-> IntLiteral[cfg[section][key]]]

\* the default configuration _load_config creates
DefaultEmail ==
    [smtp_server |-> "smtp.gmail.com",
     smtp_port |-> "587",
     sender_email |-> "your_email@gmail.com",
     sender_password |-> "your_app_password",
     recipient_emails |-> "[\"admin@example.com\", \"security@example.com\"]"]

DefaultConfig ==
    [Email |-> DefaultEmail,
     Throttling |-> [throttle_period_seconds |-> "300", max_alerts_per_file |-> "3"],
     AlertLevels |-> [file_modified |-> "MEDIUM", file_created |-> "LOW",
                      file_deleted |-> "HIGH"]]

\* a configuration file: absent, unparsable, or holding sections
NoFile == [exists |-> FALSE, parses |-> FALSE, sections |-> <<>>]
FileOf(sections) == [exists |-> TRUE, parses |-> TRUE, sections |-> sections]
GarbageFile == [exists |-> TRUE, parses |-> FALSE, sections |-> <<>>]

\* a short throttle window, two alerts per file
CustomFile ==
    FileOf([Email |-> DefaultEmail,
            Throttling |-> [throttle_period_seconds |-> "3", max_alerts_per_file |-> "2"],
            AlertLevels |-> [modified |-> "HIGH", created |-> "LOW"]])
\* one alert per file
SingleFile ==
    FileOf([Email |-> DefaultEmail,
            Throttling |-> [throttle_period_seconds |-> "2", max_alerts_per_file |-> "1"]])
NoEmailFile ==
    FileOf([Throttling |-> [throttle_period_seconds |-> "3", max_alerts_per_file |-> "2"]])
NoKeyFile ==
    FileOf([Email |-> [smtp_server |-> "smtp.gmail.com", smtp_port |-> "587"],
            Throttling |-> [throttle_period_seconds |-> "3", max_alerts_per_file |-> "2"]])
BadPortFile ==
    FileOf([Email |-> [DefaultEmail EXCEPT !.smtp_port = "smtp"]])
BadRecipientsFile ==
    FileOf([Email |-> [DefaultEmail EXCEPT !.recipient_emails = "admin@example.com"]])
BadPeriodFile ==
    FileOf([Email |-> DefaultEmail,
            Throttling |-> [throttle_period_seconds |-> "5m", max_alerts_per_file |-> "2"]])
BadMaxFile ==
    FileOf([Email |-> DefaultEmail,
            Throttling |-> [throttle_period_seconds |-> "3", max_alerts_per_file |-> "two"]])
NoThrottlingFile == FileOf([Email |-> DefaultEmail])

\* the files construction succeeds on with a short window
ThrottleFiles == {CustomFile, SingleFile}
ConfigFiles ==
    {NoFile, GarbageFile, FileOf(DefaultConfig), CustomFile, NoEmailFile, NoKeyFile,
     BadPortFile, BadRecipientsFile, BadPeriodFile, BadMaxFile, NoThrottlingFile}

\* _load_config: the configuration object, and the file left on disk
_load_config(file) ==
    IF ~file.exists
    THEN [raised |-> FALSE, config |-> DefaultConfig, file |-> FileOf(DefaultConfig)]
    ELSE IF ~file.parses
    THEN [raised |-> TRUE, config |-> <<>>, file |-> file]
    ELSE [raised |-> FALSE, config |-> file.sections, file |-> file]

\* lines 31-37: the e-mail settings are read without a fallback
EmailConfigRaises(cfg) ==
    \/ Get(cfg, "Email", "smtp_server").raised
    \/ GetInt(cfg, "Email", "smtp_port").raised
    \/ Get(cfg, "Email", "sender_email").raised
    \/ Get(cfg, "Email", "sender_password").raised
    \/ Get(cfg, "Email", "recipient_emails").raised
    \/ Get(cfg, "Email", "recipient_emails").val \notin JsonLiteral

\* FIMAlertManager.__init__: the manager constructed from the file on disk
FIMAlertManager_init(file) ==
    LET l == _load_config(file)
        period == GetIntFallback(l.config, "Throttling", "throttle_period_seconds", 300)
    IN  IF l.raised
        THEN [raised |-> TRUE, config |-> <<>>, throttle_period |-> 0, file |-> l.file]
        ELSE IF EmailConfigRaises(l.config) \/ period.raised
        THEN [raised |-> TRUE, config |-> <<>>, throttle_period |-> 0, file |-> l.file]
        ELSE [raised |-> FALSE, config |-> l.config, throttle_period |-> period.val,
              file |-> l.file]

(***************************************************************************)
(* Throttling.                                                             *)
(***************************************************************************)
EmptyHistory == [p \in {} |-> [time |-> 0, count |-> 0]]

\* faulty variant: the count may reach max_alerts before an alert is denied
_should_send_alert_le(cfg, period, history, file_path, current_time) ==
    LET max_alerts == GetIntFallback(cfg, "Throttling", "max_alerts_per_file", 3)
    IN  IF max_alerts.raised THEN [raised |-> TRUE, ret |-> FALSE]
        ELSE IF file_path \in DOMAIN history
        THEN IF current_time - history[file_path].time < period
             THEN [raised |-> FALSE, ret |-> history[file_path].count <= max_alerts.val]
             ELSE [raised |-> FALSE, ret |-> TRUE]
        ELSE [raised |-> FALSE, ret |-> TRUE]

\* faulty variant: the throttle period is compared with <=, so that a call exactly
\* throttle_period after the last alert is still inside the window
_should_send_alert_late(cfg, period, history, file_path, current_time) ==
    LET max_alerts == GetIntFallback(cfg, "Throttling", "max_alerts_per_file", 3)
    IN  IF max_alerts.raised THEN [raised |-> TRUE, ret |-> FALSE]
        ELSE IF file_path \in DOMAIN history
        THEN IF current_time - history[file_path].time <= period
             THEN [raised |-> FALSE, ret |-> history[file_path].count < max_alerts.val]
             ELSE [raised |-> FALSE, ret |-> TRUE]
        ELSE [raised |-> FALSE, ret |-> TRUE]

\* faulty variant: the window never expires: once the count has reached
\* max_alerts the path stays throttled
_should_send_alert_noexpiry(cfg, period, history, file_path, current_time) ==
    LET max_alerts == GetIntFallback(cfg, "Throttling", "max_alerts_per_file", 3)
    IN  IF max_alerts.raised THEN [raised |-> TRUE, ret |-> FALSE]
        ELSE IF file_path \in DOMAIN history
        THEN [raised |-> FALSE, ret |-> history[file_path].count < max_alerts.val]
        ELSE [raised |-> FALSE, ret |-> TRUE]

\* _should_send_alert at current_time: True, False, or ValueError from getint
_should_send_alert(cfg, period, history, file_path, current_time) ==
    LET max_alerts == GetIntFallback(cfg, "Throttling", "max_alerts_per_file", 3)
    IN  IF max_alerts.raised THEN [raised |-> TRUE, ret |-> FALSE]
        ELSE IF file_path \in DOMAIN history
        THEN IF current_time - history[file_path].time < period
             THEN [raised |-> FALSE, ret |-> history[file_path].count < max_alerts.val]
             ELSE [raised |-> FALSE, ret |-> TRUE]
        ELSE [raised |-> FALSE, ret |-> TRUE]

\* faulty variant: the time of the first alert of the window is kept, not moved forward
_update_alert_history_keep(period, history, file_path, current_time) ==
    LET entry ==
            IF file_path \in DOMAIN history
            THEN IF current_time - history[file_path].time < period
                 THEN [time |-> history[file_path].time,
                       count |-> history[file_path].count + 1]
                 ELSE [time |-> current_time, count |-> 1]
            ELSE [time |-> current_time, count |-> 1]
    IN  [q \in DOMAIN history \cup {file_path} |->
            IF q = file_path THEN entry ELSE history[q]]

\* faulty variant: the update compares with <=, so that an alert sent exactly
\* throttle_period after the recorded time still counts into the old window
_update_alert_history_late(period, history, file_path, current_time) ==
    LET entry ==
            IF file_path \in DOMAIN history
            THEN IF current_time - history[file_path].time <= period
                 THEN [time |-> current_time, count |-> history[file_path].count + 1]
                 ELSE [time |-> current_time, count |-> 1]
            ELSE [time |-> current_time, count |-> 1]
    IN  [q \in DOMAIN history \cup {file_path} |->
            IF q = file_path THEN entry ELSE history[q]]

\* faulty variant: the count is never reset once the path has an entry
_update_alert_history_noreset(period, history, file_path, current_time) ==
    LET entry ==
            IF file_path \in DOMAIN history
            THEN [time |-> current_time, count |-> history[file_path].count + 1]
            ELSE [time |-> current_time, count |-> 1]
    IN  [q \in DOMAIN history \cup {file_path} |->
            IF q = file_path THEN entry ELSE history[q]]

\* faulty variant: the dictionary is rebuilt with the entry of file_path alone
_update_alert_history_drop(period, history, file_path, current_time) ==
    LET entry ==
            IF file_path \in DOMAIN history
            THEN IF current_time - history[file_path].time < period
                 THEN [time |-> current_time, count |-> history[file_path].count + 1]
                 ELSE [time |-> current_time, count |-> 1]
            ELSE [time |-> current_time, count |-> 1]
    IN  [q \in {file_path} |-> entry]

\* faulty variant: entries of other paths whose window has expired are evicted
_update_alert_history_evict(period, history, file_path, current_time) ==
    LET entry ==
            IF file_path \in DOMAIN history
            THEN IF current_time - history[file_path].time < period
                 THEN [time |-> current_time, count |-> history[file_path].count + 1]
                 ELSE [time |-> current_time, count |-> 1]
            ELSE [time |-> current_time, count |-> 1]
        kept == {q \in DOMAIN history : current_time - history[q].time < period}
    IN  [q \in kept \cup {file_path} |->
            IF q = file_path THEN entry ELSE history[q]]

\* _update_alert_history at current_time
_update_alert_history(period, history, file_path, current_time) ==
    LET entry ==
            IF file_path \in DOMAIN history
            THEN IF current_time - history[file_path].time < period
                 THEN [time |-> current_time, count |-> history[file_path].count + 1]
                 ELSE [time |-> current_time, count |-> 1]
            ELSE [time |-> current_time, count |-> 1]
    IN  [q \in DOMAIN history \cup {file_path} |->
            IF q = file_path THEN entry ELSE history[q]]

\* faulty variant: the level is read without a fallback
AlertLevel_nofallback(cfg, event_type) ==
    Get(cfg, "AlertLevels", Lower(event_type)).val

\* the alert level send_alert puts in the subject
AlertLevel(cfg, event_type) ==
    GetFallback(cfg, "AlertLevels", Lower(event_type), "MEDIUM")

\* faulty variant: a failed delivery is retried once
EmailAttempts_retry(delivered) == IF delivered THEN 1 ELSE 2

\* the number of _send_email invocations of one admitted send_alert: the try
\* block calls it once, whether it returns or raises
EmailAttempts(delivered) == 1

\* what send_alert returns once the throttle has admitted the alert: the except
\* clause turns a raising _send_email into False
AdmittedResult(delivered) == IF delivered THEN "True" ELSE "False"

\* faulty variant: the history is updated before the delivery is known to have succeeded
HistoryAfter_always(period, history, file_path, current_time, delivered) ==
    _update_alert_history(period, history, file_path, current_time)

\* alert_history after the try block of an admitted send_alert: updated, at the
\* time _send_email returned, only when _send_email did not raise
HistoryAfter(period, history, file_path, current_time, delivered) ==
    IF delivered
    THEN _update_alert_history(period, history, file_path, current_time)
    ELSE history

\* send_alert on a manager (cfg, period, history): the throttle check at time t,
\* then _send_email, which takes d seconds and succeeds (delivered) or raises,
\* then the history update at t + d.
\* result: "True" | "False" | "raise" (an exception leaves send_alert)
SendAlertOutcome(cfg, period, history, event_type, file_path, t, delivered, d) ==
    LET s == _should_send_alert(cfg, period, history, file_path, t)
    IN  IF s.raised
        THEN [result |-> "raise", admitted |-> FALSE, emails |-> 0, sent |-> FALSE,
              level |-> "", end |-> t, history |-> history]
        ELSE IF ~s.ret
        THEN [result |-> "False", admitted |-> FALSE, emails |-> 0, sent |-> FALSE,
              level |-> "", end |-> t, history |-> history]
        ELSE [result |-> AdmittedResult(delivered), admitted |-> TRUE,
              emails |-> EmailAttempts(delivered), sent |-> delivered,
              level |-> AlertLevel(cfg, event_type), end |-> t + d,
              history |-> HistoryAfter(period, history, file_path, t + d, delivered)]

NoCall ==
    [event_type |-> "", path |-> "", result |-> "", admitted |-> FALSE, sent |-> FALSE,
     emails |-> 0, level |-> "", old_hash |-> "", new_hash |-> "", details |-> FALSE]

\* one recorded call. t: the time of the throttle check; u: the time written to
\* alert_history when the alert was sent (t otherwise); htime, hcount: the entry
\* of the path in the manager's alert_history after the call (-1, 0: no entry)
CallRecord(file_path, t, o) ==
    [t |-> t, u |-> IF o.sent THEN o.end ELSE t, admitted |-> o.admitted,
     sent |-> o.sent, result |-> o.result,
     htime |-> IF file_path \in DOMAIN o.history THEN o.history[file_path].time ELSE -1,
     hcount |-> IF file_path \in DOMAIN o.history THEN o.history[file_path].count ELSE 0]

LastRecord(event_type, file_path, old_hash, new_hash, details, o) ==
    [event_type |-> event_type, path |-> file_path, result |-> o.result,
     admitted |-> o.admitted, sent |-> o.sent, emails |-> o.emails, level |-> o.level,
     old_hash |-> old_hash, new_hash |-> new_hash, details |-> details]

\* the number of calls recorded
NumCalls(log) ==
    LET RECURSIVE Sum(_)
        Sum(S) == IF S = {} THEN 0
                  ELSE LET p == CHOOSE q \in S : TRUE
                       IN  Len(log[p]) + Sum(S \ {p})
    IN  Sum(Paths)

(***************************************************************************)
(* Actions of the alert manager.                                           *)
(***************************************************************************)
\* one second passes
Tick ==
    /\ now < MaxTime
    /\ now' = now + 1
    /\ UNCHANGED <<cfgFile, mgrState, config, throttle_period, alert_history,
                   calls, last, hwCalls>>
    /\ UNCHANGED watchVars
    /\ UNCHANGED baseVars

\* the system clock is set back one second: time.time() is the wall clock and
\* does not have to be monotonic
StepBack ==
    /\ now > 0
    /\ now' = now - 1
    /\ UNCHANGED <<cfgFile, mgrState, config, throttle_period, alert_history,
                   calls, last, hwCalls>>
    /\ UNCHANGED watchVars
    /\ UNCHANGED baseVars

\* FIMAlertManager(): the long-lived manager is constructed
Construct ==
    /\ mgrState = "none"
    /\ LET m == FIMAlertManager_init(cfgFile)
       IN  /\ mgrState' = IF m.raised THEN "failed" ELSE "ok"
           /\ config' = m.config
           /\ throttle_period' = m.throttle_period
           /\ cfgFile' = m.file
    /\ alert_history' = EmptyHistory
    /\ UNCHANGED <<now, calls, last, hwCalls>>
    /\ UNCHANGED watchVars
    /\ UNCHANGED baseVars

\* alert_manager.send_alert(event_type, file_path, details) on the long-lived manager
send_alert(event_type, file_path, delivered, d) ==
    /\ mgrState = "ok"
    /\ NumCalls(calls) < MaxCalls
    /\ now + d <= MaxTime
    /\ LET o == SendAlertOutcome(config, throttle_period, alert_history,
                                 event_type, file_path, now, delivered, d)
       IN  /\ alert_history' = o.history
           /\ now' = o.end
           /\ calls' = [calls EXCEPT ![file_path] = Append(@, CallRecord(file_path, now, o))]
           /\ last' = LastRecord(event_type, file_path, "", "", FALSE, o)
    /\ UNCHANGED <<cfgFile, mgrState, config, throttle_period, hwCalls>>
    /\ UNCHANGED watchVars
    /\ UNCHANGED baseVars

(***************************************************************************)
(* handle_watchdog_event: the event entry point.                           *)
(***************************************************************************)
\* the outcome of an event whose FIMAlertManager() raised
RaisedOutcome(t) ==
    [result |-> "raise", admitted |-> FALSE, emails |-> 0, sent |-> FALSE,
     level |-> "", end |-> t, history |-> EmptyHistory]

\* handle_watchdog_event(event_type, file_path, old_hash, new_hash): a manager is
\* constructed for the event from the file on disk, with an empty alert_history,
\* and send_alert is called on it once; the details hold the hashes when both
\* are non-empty
handle_watchdog_event(event_type, file_path, old_hash, new_hash, delivered, d) ==
    /\ NumCalls(hwCalls) < MaxCalls
    /\ now + d <= MaxTime
    /\ LET m == FIMAlertManager_init(cfgFile)
           details == old_hash # "" /\ new_hash # ""
           o == IF m.raised THEN RaisedOutcome(now)
                ELSE SendAlertOutcome(m.config, m.throttle_period, EmptyHistory,
                                      event_type, file_path, now, delivered, d)
       IN  /\ cfgFile' = m.file
           /\ now' = o.end
           /\ hwCalls' = [hwCalls EXCEPT ![file_path] = Append(@, CallRecord(file_path, now, o))]
           /\ last' = LastRecord(event_type, file_path, old_hash, new_hash, details, o)
    /\ UNCHANGED <<mgrState, config, throttle_period, alert_history, calls>>
    /\ UNCHANGED watchVars
    /\ UNCHANGED baseVars

(***************************************************************************)
(* WatchDog.py: CustomLoggingEventHandler.                                 *)
(***************************************************************************)
\* a path: absolute or relative, and its components
PathOf(abs, parts) == [abs |-> abs, parts |-> parts]
NoPath == PathOf(FALSE, <<>>)

\* os.getcwd()
Cwd == <<"home", "fim">>

\* os.path.normpath on the components of an absolute path: "." and empty
\* components are dropped, ".." removes the component before it
RECURSIVE NormParts(_, _)
NormParts(parts, acc) ==
    IF parts = <<>> THEN acc
    ELSE LET c == Head(parts)
         IN  IF c = "." \/ c = "" THEN NormParts(Tail(parts), acc)
             ELSE IF c = ".."
             THEN NormParts(Tail(parts),
                            IF acc = <<>> THEN acc ELSE SubSeq(acc, 1, Len(acc) - 1))
             ELSE NormParts(Tail(parts), Append(acc, c))

\* os.path.abspath: a relative path is joined to the working directory, then
\* the path is normalised
abspath(path) ==
    PathOf(TRUE, NormParts(IF path.abs THEN path.parts ELSE Cwd \o path.parts, <<>>))

\* log_file = 'FIM_Logs.log'
LogFileArg == PathOf(FALSE, <<"FIM_Logs.log">>)

\* CustomLoggingEventHandler.__init__
CustomLoggingEventHandler_init(log_file, user) ==
    [log_file |-> abspath(log_file), user |-> user]

\* faulty variant: the path is compared as given, without abspath
should_ignore_raw(path) == path = handler.log_file

\* should_ignore
should_ignore(path) == abspath(path) = handler.log_file

\* the paths events carry that denote the log file
LogPaths ==
    {PathOf(FALSE, <<"FIM_Logs.log">>),
     PathOf(FALSE, <<".", "FIM_Logs.log">>),
     PathOf(TRUE, <<"home", "fim", "FIM_Logs.log">>),
     PathOf(TRUE, <<"home", "fim", "sub", "..", "FIM_Logs.log">>)}
\* the paths events carry that denote another file
OtherPaths ==
    {PathOf(FALSE, <<"a.txt">>),
     PathOf(TRUE, <<"home", "fim", "a.txt">>),
     PathOf(TRUE, <<"home", "fim", "sub", "FIM_Logs.log">>),
     PathOf(TRUE, <<"home", "FIM_Logs.log">>)}
WatchPaths == LogPaths \cup OtherPaths

NoEvent ==
    [kind |-> "", src |-> NoPath, dest |-> NoPath, same_digest |-> FALSE,
     records |-> 0, text |-> ""]

\* one handler method: nothing when a path of the event is to be ignored, one
\* logging.info record otherwise
Handle(kind, text, src, dest, same_digest, ignore) ==
    /\ fimLog < MaxCalls
    /\ fimLog' = IF ignore THEN fimLog ELSE fimLog + 1
    /\ lastEvent' = [kind |-> kind, src |-> src, dest |-> dest,
                     same_digest |-> same_digest,
                     records |-> IF ignore THEN 0 ELSE 1,
                     text |-> IF ignore THEN "" ELSE text]
    /\ UNCHANGED handler
    /\ UNCHANGED alertVars
    /\ UNCHANGED baseVars

on_created(src) ==
    Handle("created", "Created", src, NoPath, FALSE, should_ignore(src))

\* same_digest: the content digest of the file equals the one of its baseline;
\* the handler does not look at it
on_modified(src, same_digest) ==
    Handle("modified", "Modified", src, NoPath, same_digest, should_ignore(src))

on_deleted(src) ==
    Handle("deleted", "Deleted", src, NoPath, FALSE, should_ignore(src))

on_moved(src, dest) ==
    Handle("moved", "Renamed", src, dest, FALSE,
           should_ignore(src) \/ should_ignore(dest))

(***************************************************************************)
(* project.py: calculate_hash, find_files, create_baseline.                *)
(***************************************************************************)
\* the files of the monitored directory
Files == {"f1", "f2"}
\* what a file holds
Contents == {"c1", "c2"}
\* a file of the tree: absent, present but unreadable, or readable with a content
FileStates == {"absent", "unreadable"} \cup Contents

\* hashlib.sha256 of a content, as hexdigest
Sha256 == [c \in Contents |-> IF c = "c1" THEN "d1" ELSE "d2"]

\* calculate_hash returns None
None == ""

\* faulty variant: a file that cannot be read gets the digest of no bytes
calculate_hash_empty(t, vanished, file_path) ==
    IF file_path \in vanished \/ t[file_path] \notin Contents
    THEN "d0"
    ELSE Sha256[t[file_path]]

\* calculate_hash: the digest, or None when open or read raises OSError: the
\* file is unreadable, or it has vanished since find_files listed it
calculate_hash(t, vanished, file_path) ==
    IF file_path \in vanished \/ t[file_path] \notin Contents
    THEN None
    ELSE Sha256[t[file_path]]

\* find_files: the files os.walk lists under the directory
find_files(t) == {f \in Files : t[f] # "absent"}

\* the baseline dictionary create_baseline builds: a file is added only if its
\* hash was computed
BaselineOf(t, vanished) ==
    LET hashed == {f \in find_files(t) : calculate_hash(t, vanished, f) # None}
    IN  [f \in hashed |-> calculate_hash(t, vanished, f)]

\* time.strftime("%Y%m%d_%H%M%S"): the clock cut to whole seconds
strftime(w) == w \div 2

NoBaseline ==
    [called |-> FALSE, tree |-> [f \in Files |-> "absent"], vanished |-> {},
     found |-> {}, baseline |-> <<>>, file |-> -1]

\* create_baseline(directory): the tree is walked and hashed, files in vanished
\* disappearing between the walk and their read, and the dictionary is written
\* to baselines/baseline_<timestamp>.json, opened with 'w'
create_baseline(vanished) ==
    /\ Len(blCalls) < MaxBaselines
    /\ vanished \subseteq find_files(tree)
    /\ LET baseline == BaselineOf(tree, vanished)
           baseline_file == strftime(wall)
       IN  /\ baselines' = [n \in DOMAIN baselines \cup {baseline_file} |->
                               IF n = baseline_file THEN baseline ELSE baselines[n]]
           /\ blCalls' = Append(blCalls, [file |-> baseline_file, baseline |-> baseline])
           /\ lastBaseline' = [called |-> TRUE, tree |-> tree, vanished |-> vanished,
                               found |-> find_files(tree), baseline |-> baseline,
                               file |-> baseline_file]
    /\ tree' = [f \in Files |-> IF f \in vanished THEN "absent" ELSE tree[f]]
    /\ UNCHANGED wall
    /\ UNCHANGED alertVars
    /\ UNCHANGED watchVars

\* half a second passes for the baseline script
WallTick ==
    /\ wall < MaxWall
    /\ wall' = wall + 1
    /\ UNCHANGED <<tree, baselines, blCalls, lastBaseline>>
    /\ UNCHANGED alertVars
    /\ UNCHANGED watchVars

\* a file of the tree is written, removed, or made unreadable
ChangeFile(f, st) ==
    /\ tree[f] # st
    /\ tree' = [tree EXCEPT ![f] = st]
    /\ UNCHANGED <<wall, baselines, blCalls, lastBaseline>>
    /\ UNCHANGED alertVars
    /\ UNCHANGED watchVars

(***************************************************************************)
(* Specifications.                                                         *)
(***************************************************************************)
\* the baseline script before its first create_baseline, on a tree
InitBaseOn(t) ==
    /\ wall = 0
    /\ tree = t
    /\ baselines = [n \in {} |-> <<>>]
    /\ blCalls = <<>>
    /\ lastBaseline = NoBaseline

InitBase == InitBaseOn([f \in Files |-> "absent"])

InitWatch ==
    /\ handler = CustomLoggingEventHandler_init(LogFileArg, "user")
    /\ fimLog = 0
    /\ lastEvent = NoEvent

InitHistory ==
    /\ now = 0
    /\ alert_history = EmptyHistory
    /\ calls = [p \in Paths |-> <<>>]
    /\ last = NoCall
    /\ hwCalls = [p \in Paths |-> <<>>]

InitNoManager ==
    /\ mgrState = "none"
    /\ config = <<>>
    /\ throttle_period = 0

\* Spec: one long-lived manager, constructed from a file with a short window,
\* and the send_alert calls made on it
Init ==
    /\ InitHistory
    /\ \E f \in ThrottleFiles :
          LET m == FIMAlertManager_init(f)
          IN  /\ cfgFile = m.file
              /\ mgrState = "ok"
              /\ config = m.config
              /\ throttle_period = m.throttle_period
    /\ InitWatch
    /\ InitBase

Next ==
    \/ Tick
    \/ \E p \in Paths, delivered \in BOOLEAN, d \in 0..MaxSendDelay :
          send_alert("modified", p, delivered, d)

Spec == Init /\ [][Next]_vars

\* SpecConfig: the manager is constructed from whatever file is on disk, and
\* alerts of every event type are sent for one path
InitConfig ==
    /\ InitHistory
    /\ cfgFile \in ConfigFiles
    /\ InitNoManager
    /\ InitWatch
    /\ InitBase

NextConfig ==
    \/ Tick
    \/ Construct
    \/ \E e \in EventTypes, delivered \in BOOLEAN :
          send_alert(e, "a", delivered, 0)

SpecConfig == InitConfig /\ [][NextConfig]_vars

\* SpecEvents: events arrive at handle_watchdog_event
EventFiles == {NoFile, CustomFile, NoEmailFile}

InitEvents ==
    /\ InitHistory
    /\ cfgFile \in EventFiles
    /\ InitNoManager
    /\ InitWatch
    /\ InitBase

NextEvents ==
    \/ Tick
    \/ \E p \in Paths, h \in HashPairs, delivered \in BOOLEAN :
          handle_watchdog_event("modified", p, h[1], h[2], delivered, 0)

SpecEvents == InitEvents /\ [][NextEvents]_vars

\* SpecWatch: the watchdog observer dispatches events to the handler
InitWatching ==
    /\ InitHistory
    /\ cfgFile = NoFile
    /\ InitNoManager
    /\ InitWatch
    /\ InitBase

NextWatch ==
    \/ \E src \in WatchPaths : on_created(src)
    \/ \E src \in WatchPaths, same \in BOOLEAN : on_modified(src, same)
    \/ \E src \in WatchPaths : on_deleted(src)
    \/ \E src \in WatchPaths, dest \in WatchPaths : on_moved(src, dest)

SpecWatch == InitWatching /\ [][NextWatch]_vars

\* SpecBaseline: create_baseline is called again and again on a changing tree
InitBaseline ==
    /\ InitHistory
    /\ cfgFile = NoFile
    /\ InitNoManager
    /\ InitWatch
    /\ \E t \in [Files -> FileStates] : InitBaseOn(t)

NextBaseline ==
    \/ WallTick
    \/ \E f \in Files, st \in FileStates : ChangeFile(f, st)
    \/ \E vanished \in SUBSET Files : create_baseline(vanished)

SpecBaseline == InitBaseline /\ [][NextBaseline]_vars

\* SpecSkew: the calls of Spec for one path, on a clock that may be set back
NextSkew ==
    \/ Tick
    \/ StepBack
    \/ \E delivered \in BOOLEAN : send_alert("modified", "a", delivered, 0)

SpecSkew == Init /\ [][NextSkew]_vars

(***************************************************************************)
(* Properties of the throttle, read off the recorded calls.                *)
(***************************************************************************)
\* max_alerts_per_file of the long-lived manager
MaxAlerts == GetIntFallback(config, "Throttling", "max_alerts_per_file", 3).val

\* the notify capability has succeeded on every admitted call of the log
AllDelivered(cs) == \A k \in 1..Len(cs) : cs[k].admitted => cs[k].sent

\* call i of the log opens a burst: it is the first call for the path, or it
\* comes more than period seconds after every earlier call
OpensBurst(cs, period, i) == i = 1 \/ cs[i].t - cs[i - 1].u > period

\* the index of the last alert sent before call k (0: none)
LastSentBefore(cs, k) ==
    IF \E j \in 1..(k - 1) : cs[j].sent
    THEN CHOOSE j \in 1..(k - 1) : cs[j].sent /\ \A m \in (j + 1)..(k - 1) : ~cs[m].sent
    ELSE 0

\* the start of the fixed window that is current before call k (-1: none): the
\* first alert sent, and then each alert sent period or more after the start
RECURSIVE FixedWindowStart(_, _, _)
FixedWindowStart(cs, period, k) ==
    IF k <= 1 THEN -1
    ELSE LET ws == FixedWindowStart(cs, period, k - 1)
         IN  IF ~cs[k - 1].sent THEN ws
             ELSE IF ws = -1 \/ cs[k - 1].u - ws >= period THEN cs[k - 1].u
             ELSE ws

\* C1: with a notify capability that always succeeds, of the calls for one path
\* made within throttle_period seconds of the call that opens a burst, exactly
\* the first max_alerts_per_file return True and the others return False; a
\* call made more than throttle_period seconds after all earlier ones returns
\* True again.
C1_BurstThenReset ==
    \A p \in Paths :
        LET cs == calls[p]
        IN  AllDelivered(cs) =>
                \A i \in 1..Len(cs) :
                    OpensBurst(cs, throttle_period, i) =>
                        /\ cs[i].result = "True"
                        /\ \A k \in i..Len(cs) :
                              cs[k].t - cs[i].t < throttle_period =>
                                  (cs[k].result = "True" <=> k - i + 1 <= MaxAlerts)

\* more than max calls in the burst from the first call, the first max returned
\* True and a later one False, and a call after the window returned True again
C1_Witness ==
    \E p \in Paths :
        LET cs == calls[p]
        IN  /\ AllDelivered(cs)
            /\ Len(cs) >= MaxAlerts + 2
            /\ cs[MaxAlerts + 1].t - cs[1].t < throttle_period
            /\ cs[MaxAlerts].result = "True"
            /\ cs[MaxAlerts + 1].result = "False"
            /\ cs[Len(cs)].t - cs[Len(cs) - 1].u > throttle_period
            /\ cs[Len(cs)].result = "True"

C4_AtMostMaxPerInterval ==
    \A p \in Paths :
        LET cs == calls[p]
        IN  \A i \in 1..Len(cs) :
                cs[i].sent =>
                    Cardinality({j \in i..Len(cs) :
                                    cs[j].sent /\ cs[j].t - cs[i].u < throttle_period})
                        <= MaxAlerts

\* max_alerts_per_file alerts sent inside one interval, and a call denied in it
C4_Witness ==
    \E p \in Paths :
        LET cs == calls[p]
        IN  \E i \in 1..Len(cs) :
                /\ cs[i].sent
                /\ Cardinality({j \in i..Len(cs) :
                                   cs[j].sent /\ cs[j].t - cs[i].u < throttle_period})
                       = MaxAlerts
                /\ \E j \in (i + 1)..Len(cs) :
                       ~cs[j].admitted /\ cs[j].t - cs[i].u < throttle_period

C6_OneAttemptNoRaise ==
    last # NoCall =>
        /\ last.admitted => last.emails = 1
        /\ ~last.admitted => last.emails = 0
        /\ (last.admitted /\ ~last.sent) => last.result = "False"
        /\ (last.admitted /\ last.sent) => last.result = "True"

\* an admitted call whose delivery failed
C6_Witness ==
    /\ last # NoCall
    /\ last.admitted
    /\ ~last.sent
    /\ last.emails = 1
    /\ last.result = "False"

(***************************************************************************)
(* Properties of the event entry point, the configuration and the handler. *)
(***************************************************************************)
\* C2 as stated: of the events handle_watchdog_event receives for one path
\* within one throttle window (notify succeeding), exactly the first
\* max_alerts_per_file are dispatched and the others are not.
C2_EntryPointThrottles ==
    \A p \in Paths :
        LET cs == hwCalls[p]
            m == FIMAlertManager_init(cfgFile)
            max_alerts == GetIntFallback(m.config, "Throttling", "max_alerts_per_file", 3)
        IN  (~m.raised /\ ~max_alerts.raised /\ AllDelivered(cs)) =>
                \A k \in 1..Len(cs) :
                    cs[k].t - cs[1].t < m.throttle_period =>
                        (cs[k].sent <=> k <= max_alerts.val)

\* the severity the default configuration is written to give an event type
DefaultSeverity(event_type) ==
    CASE event_type = "created" -> "LOW"
      [] event_type = "modified" -> "MEDIUM"
      [] event_type = "deleted" -> "HIGH"

\* C7 as stated: with the generated default configuration send_alert attaches
\* Low to a 'created', Medium to a 'modified' and High to a 'deleted' event.
C7_DefaultSeverity ==
    (/\ mgrState = "ok"
     /\ config = DefaultConfig
     /\ last.admitted
     /\ last.event_type \in {"created", "modified", "deleted"}) =>
        last.level = DefaultSeverity(last.event_type)

\* C8 as stated: a 'modified' event for a path whose digest equals its previous
\* digest produces no finding: handle_watchdog_event sends no alert when
\* old_hash = new_hash, and on_modified logs no record.
C8_NoFindingOnSameDigest ==
    /\ (/\ last.event_type = "modified"
        /\ last.old_hash # ""
        /\ last.old_hash = last.new_hash) => last.emails = 0
    /\ (lastEvent.kind = "modified" /\ lastEvent.same_digest) => lastEvent.records = 0

\* a configuration file the manager can be constructed from and send with
WellFormed(file) ==
    /\ file.exists
    /\ file.parses
    /\ ~EmailConfigRaises(file.sections)
    /\ ~GetIntFallback(file.sections, "Throttling", "throttle_period_seconds", 300).raised
    /\ ~GetIntFallback(file.sections, "Throttling", "max_alerts_per_file", 3).raised

\* C9 as stated: constructing FIMAlertManager never fails on a configuration
\* error: with a missing or malformed file, initialisation completes with the
\* generated defaults (throttle period 300, max 3 alerts per file).
C9_ConstructNeverFails ==
    mgrState # "none" =>
        /\ mgrState = "ok"
        /\ ~WellFormed(cfgFile) =>
              /\ throttle_period = 300
              /\ GetIntFallback(config, "Throttling", "max_alerts_per_file", 3)
                     = [raised |-> FALSE, val |-> 3]

\* an event touches the log file when its source path, or the destination path
\* of a move, denotes it
TouchesLog(e) == e.src \in LogPaths \/ (e.kind = "moved" /\ e.dest \in LogPaths)

\* C10: the handler emits no log record for an event that touches its own log
\* file (the source path, or the destination path of a move), and exactly one
\* record for any other event.
C10_SelfReferenceExclusion ==
    lastEvent # NoEvent =>
        lastEvent.records = (IF TouchesLog(lastEvent) THEN 0 ELSE 1)

\* after a record was logged, a move of another file onto the log file, its
\* destination not written in normal form, is ignored
C10_Witness ==
    /\ fimLog >= 1
    /\ lastEvent.kind = "moved"
    /\ lastEvent.src \in OtherPaths
    /\ lastEvent.dest \in LogPaths
    /\ lastEvent.dest # handler.log_file
    /\ lastEvent.records = 0

(***************************************************************************)
(* project.py: the snapshots create_baseline writes.                       *)
(***************************************************************************)
\* C11: every create_baseline call commits a snapshot of its own and never
\* mutates an earlier one: the identifiers of the calls strictly increase in
\* creation order, and every snapshot written so far still holds what its
\* call wrote, also when two calls happen within the same clock second.
C11_NewSnapshotEachCall ==
    /\ \A i \in 1..Len(blCalls) :
          /\ blCalls[i].file \in DOMAIN baselines
          /\ baselines[blCalls[i].file] = blCalls[i].baseline
    /\ \A i, j \in 1..Len(blCalls) :
          i < j => blCalls[i].file < blCalls[j].file

\* C12: create_baseline records exactly the files whose hash could be computed:
\* the snapshot's keys are the files found under the root that are readable and
\* did not vanish, each mapped to the SHA-256 digest of its content; a file
\* that is unreadable or vanished is skipped, has no entry, and does not keep
\* the snapshot from being written.
C12_ExactlyTheHashedFiles ==
    lastBaseline.called =>
        /\ lastBaseline.file \in DOMAIN baselines
        /\ LET snapshot == baselines[lastBaseline.file]
               readable == {f \in lastBaseline.found :
                               /\ f \notin lastBaseline.vanished
                               /\ lastBaseline.tree[f] \in Contents}
           IN  /\ DOMAIN snapshot = readable
               /\ \A f \in readable :
                     /\ snapshot[f] = Sha256[lastBaseline.tree[f]]
                     /\ snapshot[f] =
                            calculate_hash(lastBaseline.tree, lastBaseline.vanished, f)
               /\ \A f \in lastBaseline.found \ readable :
                     /\ calculate_hash(lastBaseline.tree, lastBaseline.vanished, f) = None
                     /\ f \notin DOMAIN snapshot

\* a baseline of partial coverage: one file was skipped because it vanished,
\* the other was recorded
C12_Witness ==
    /\ lastBaseline.called
    /\ lastBaseline.file \in DOMAIN baselines
    /\ \E f, g \in lastBaseline.found :
          /\ f \in lastBaseline.vanished
          /\ f \notin DOMAIN baselines[lastBaseline.file]
          /\ g \in DOMAIN baselines[lastBaseline.file]

(***************************************************************************)
(* Properties of the throttle store.                                       *)
(***************************************************************************)
\* the entry of the path in alert_history when call k of the log is made
\* (time -1, count 0: no entry)
EntryBefore(cs, k) ==
    IF k = 1 THEN [time |-> -1, count |-> 0]
    ELSE [time |-> cs[k - 1].htime, count |-> cs[k - 1].hcount]

\* C14: a send_alert call made exactly throttle_period seconds after the time
\* recorded for its path is treated as window expired: it is admitted, also
\* when the recorded count equals max_alerts_per_file, and once the alert is
\* sent the recorded count is 1.
C14_BoundaryExpires ==
    \A p \in Paths :
        LET cs == calls[p]
        IN  \A k \in 1..Len(cs) :
                LET e == EntryBefore(cs, k)
                IN  (e.time # -1 /\ cs[k].t - e.time = throttle_period) =>
                        /\ cs[k].admitted
                        /\ cs[k].sent => cs[k].hcount = 1

\* a call exactly throttle_period after the recorded time, the recorded count
\* being max_alerts_per_file, was admitted and sent at once, and the count is 1
C14_Witness ==
    \E p \in Paths :
        LET cs == calls[p]
        IN  \E k \in 1..Len(cs) :
                LET e == EntryBefore(cs, k)
                IN  /\ e.time # -1
                    /\ e.count = MaxAlerts
                    /\ cs[k].t - e.time = throttle_period
                    /\ cs[k].sent
                    /\ cs[k].u = cs[k].t
                    /\ cs[k].hcount = 1

\* C15: for every event type passed to send_alert and every configuration, the
\* alert level used is the value the configuration's AlertLevels section holds
\* for the lower-cased event type, and MEDIUM when the event type, or the whole
\* section, is not mapped; an unmapped event type never makes send_alert fail:
\* an exception leaves send_alert only when max_alerts_per_file is no integer.
C15_LevelFromConfig ==
    last # NoCall =>
        LET key == Lower(last.event_type)
            mapped == /\ "AlertLevels" \in DOMAIN config
                      /\ key \in DOMAIN config["AlertLevels"]
        IN  /\ (last.admitted /\ mapped) => last.level = config["AlertLevels"][key]
            /\ (last.admitted /\ ~mapped) =>
                   /\ last.level = "MEDIUM"
                   /\ last.result \in {"True", "False"}
            /\ last.result = "raise" =>
                   /\ HasOption(config, "Throttling", "max_alerts_per_file")
                   /\ config["Throttling"]["max_alerts_per_file"] \notin DOMAIN IntLiteral

\* an alert of an event type the AlertLevels section does not map was sent
\* with level MEDIUM
C15_Witness ==
    /\ last # NoCall
    /\ "AlertLevels" \in DOMAIN config
    /\ Lower(last.event_type) \notin DOMAIN config["AlertLevels"]
    /\ last.sent
    /\ last.result = "True"
    /\ last.level = "MEDIUM"

\* C16: after any sequence of send_alert calls on one manager (deliveries
\* succeeding or failing, time passing between the throttle check and the
\* history update of a call), every entry of alert_history has
\* 1 <= count <= max_alerts_per_file.
C16_CountWithinBounds ==
    \A p \in DOMAIN alert_history :
        /\ 1 <= alert_history[p].count
        /\ alert_history[p].count <= MaxAlerts

\* an entry at max_alerts_per_file, its path having seen a failed delivery, an
\* alert whose delivery took time, and an alert that reset the window
C16_Witness ==
    \E p \in DOMAIN alert_history :
        LET cs == calls[p]
        IN  /\ alert_history[p].count = MaxAlerts
            /\ \E k \in 1..Len(cs) : cs[k].admitted /\ ~cs[k].sent
            /\ \E k \in 1..Len(cs) : cs[k].sent /\ cs[k].u > cs[k].t
            /\ \E k \in 2..Len(cs) :
                  cs[k].sent /\ cs[k].hcount = 1 /\ cs[k - 1].hcount >= 1

\* alert_history restricted to the entry of one path
OwnEntry(history, p) == [q \in DOMAIN history \cap {p} |-> history[q]]

\* what one step that records a send_alert call for path p may do to alert_history
FrameOfCall(p) ==
    LET c == calls'[p][Len(calls'[p])]
    IN  /\ ~c.sent => alert_history' = alert_history
        /\ c.sent =>
              /\ DOMAIN alert_history' = DOMAIN alert_history \cup {p}
              /\ \A q \in DOMAIN alert_history \ {p} :
                    alert_history'[q] = alert_history[q]
        /\ c.admitted =
              _should_send_alert(config, throttle_period,
                                 OwnEntry(alert_history, p), p, c.t).ret

\* C17: a send_alert call that is throttled, or whose delivery fails, leaves
\* alert_history unchanged; a call that succeeds changes only the entry of its
\* own file_path; the throttle decision for a path is the decision taken on the
\* path's own entry alone, whatever the entries of other paths.
C17_Frame ==
    [][\A p \in Paths : calls'[p] # calls[p] => FrameOfCall(p)]_vars

\* both paths have an entry, and the last call, for a path whose window is
\* full, was throttled while the other path was admitted in the same window
C17_Witness ==
    \E p, q \in Paths :
        /\ p # q
        /\ {p, q} \subseteq DOMAIN alert_history
        /\ last.path = p
        /\ ~last.admitted
        /\ alert_history[p].count = MaxAlerts
        /\ Len(calls[q]) >= 1
        /\ calls[q][Len(calls[q])].sent
        /\ calls[q][Len(calls[q])].t >= alert_history[p].time

\* C18: a throttled path always becomes admissible again: a send_alert call
\* made at least throttle_period seconds after the last alert sent for the
\* path is admitted, however many calls for the path were denied in between;
\* the denied calls leave the recorded time at that of the last sent alert, so
\* they do not extend the block.
C18_NoStarvation ==
    \A p \in Paths :
        LET cs == calls[p]
        IN  \A j \in 1..Len(cs) :
                cs[j].sent =>
                    \A k \in (j + 1)..Len(cs) :
                        (\A m \in (j + 1)..(k - 1) : ~cs[m].sent) =>
                            /\ \A m \in (j + 1)..(k - 1) : cs[m].htime = cs[j].u
                            /\ cs[k].t - cs[j].u >= throttle_period => cs[k].admitted

\* a path was throttled, denied more than once, the last denial less than
\* throttle_period before the next call, and this call was admitted
\* throttle_period after the last sent alert
C18_Witness ==
    \E p \in Paths :
        LET cs == calls[p]
        IN  \E j, k \in 1..Len(cs) :
                /\ cs[j].sent
                /\ k >= j + 3
                /\ \A m \in (j + 1)..(k - 1) : ~cs[m].admitted
                /\ cs[k].t - cs[k - 1].t < throttle_period
                /\ cs[k].t - cs[j].u >= throttle_period
                /\ cs[k].admitted

\* the paths for which at least one alert was delivered
DeliveredPaths == {p \in Paths : \E k \in 1..Len(calls[p]) : calls[p][k].sent}

\* C19: after any sequence of send_alert calls, the keys of alert_history are
\* exactly the paths for which at least one alert was delivered: an entry is
\* never removed once created, also when its window has expired; it is only
\* overwritten, by the next alert sent for its path, whose time it holds.
C19_KeysAreDeliveredPaths ==
    /\ DOMAIN alert_history = DeliveredPaths
    /\ \A p \in DeliveredPaths :
          LET cs == calls[p]
              j == LastSentBefore(cs, Len(cs) + 1)
          IN  alert_history[p].time = cs[j].u

\* an entry whose window has expired is still in the store after an alert for
\* the other path was sent past its expiry
C19_Witness ==
    \E p, q \in DOMAIN alert_history :
        /\ p # q
        /\ alert_history[q].time - alert_history[p].time >= throttle_period
        /\ now - alert_history[p].time >= throttle_period
        /\ DeliveredPaths = {p, q}

(***************************************************************************)
(* The throttle on a clock that is set back.                               *)
(***************************************************************************)
\* C13: a throttle decision requested at a time earlier than the time recorded
\* for the path is surfaced at once as a fatal error: the call raises, it is
\* not treated as an ordinary in-window or out-of-window call, and it leaves
\* alert_history as it was.
C13_NonMonotonicIsFatal ==
    \A p \in Paths :
        LET cs == calls[p]
        IN  \A k \in 1..Len(cs) :
                LET e == EntryBefore(cs, k)
                IN  (e.time # -1 /\ cs[k].t < e.time) =>
                        /\ cs[k].result = "raise"
                        /\ ~cs[k].admitted
                        /\ cs[k].htime = e.time
                        /\ cs[k].hcount = e.count

====
